---- MODULE Spec2Model ----
(***************************************************************************)
(* A model of memset.c: five implementations of memset (byte-wise,         *)
(* 32-bit word-wise, generic word-wise, and the two variants with a        *)
(* prologue and an epilogue for unaligned pointers and sizes) and the      *)
(* check_memset instrumentation.                                           *)
(*                                                                         *)
(* Memory is a flat array of bytes (values 0..255) at addresses            *)
(* 1..MemSize; an address is word-aligned when it is a multiple of the     *)
(* word's size.  A store that leaves the array is a fault (the process     *)
(* dies at that store).  A word is the sequence of its byte lanes, lane 1  *)
(* the least significant; a word store writes its lanes at ascending       *)
(* addresses whatever the address's alignment (the flat, byte-addressable  *)
(* target of the file's comments).                                         *)
(* size_t is SizeBits wide and wraps.  assert() is compiled in.            *)
(***************************************************************************)
EXTENDS Integers, Sequences, FiniteSets, TLC

VARIABLES
    WORDSIZE,   \* __WORDSIZE of the build: bits per word
    s, c, sz,   \* the arguments of the fill request under test
    arg,        \* the value passed as c in the current pass
    pass,       \* 1: the fillers are called with c; 2: with c & 0xff
    k,          \* index in Fillers of the next filler to call
    out,        \* filler -> outcome of its call in the current pass
    first,      \* filler -> outcome of its call in pass 1
    charSigned, \* whether plain char is signed in the build
    f,          \* check_memset: the function under check
    unaligned,  \* check_memset: the unaligned argument
    buffer,     \* check_memset: char buffer[BUFFER_LEN]
    set,        \* check_memset: the loop variable, a char
    ck_pc,      \* check_memset: "idle", "loop" or "returned"
    ck_ret,     \* check_memset: the value returned
    calls       \* check_memset: the values f was called with, in order

fillVars == <<WORDSIZE, s, c, sz, arg, pass, k, out, first>>
checkVars == <<charSigned, f, unaligned, buffer, set, ck_pc, ck_ret, calls>>
vars == <<WORDSIZE, s, c, sz, arg, pass, k, out, first,
          charSigned, f, unaligned, buffer, set, ck_pc, ck_ret, calls>>

----------------------------------------------------------------------------
(* Bounds of the model. *)

\* largest length of a fill request
MaxLen == 19
\* the request starts at GuardLen .. GuardLen + MaxOff
MaxOff == 7
\* bytes of memory kept before the first and after the last possible request
GuardLen == 8
\* width of size_t in the model
SizeBits == 16
\* most calls of f check_memset is followed through
MaxCalls == 260

\* #define BUFFER_LEN 4096
BUFFER_LEN == 4096

MemSize == GuardLen + MaxOff + MaxLen + GuardLen
SIZE_MAX == 2^SizeBits - 1

WordSizes == {8, 16, 32, 64}
CValues == {0, 65, 577, -2}

\* what the memory holds before a call: every byte differs from its
\* neighbours and from every fill byte
Mem0 == [a \in 1..MemSize |-> 128 + (a % 64)]

----------------------------------------------------------------------------
(* Bytes and words. *)

\* conversion of an int to byte (typedef char byte): the low 8 bits
ToByte(v) == v % 256

\* faulty variant: c used unmasked
MaskByteNone(v) == v
\* c & 0xff
MaskByte(v) == v % 256

RECURSIVE OrBits(_, _)
\* a | b on non-negative integers
OrBits(a, b) ==
    IF a = 0 THEN b
    ELSE IF b = 0 THEN a
    ELSE (IF a % 2 = 1 \/ b % 2 = 1 THEN 1 ELSE 0) + 2 * OrBits(a \div 2, b \div 2)

\* the two's complement int v converted to an unsigned word of n bytes
WordOfInt(v, n) ==
    [l \in 1..n |->
        IF l <= 4 THEN (v \div (256^(l - 1))) % 256
        ELSE IF v < 0 THEN 255 ELSE 0]

\* x << bits, for bits a multiple of 8; lanes shifted out of the word are lost
Shl(x, bits) ==
    [l \in DOMAIN x |->
        IF l - (bits \div 8) \in DOMAIN x THEN x[l - (bits \div 8)] ELSE 0]

\* x | y
WordOr(x, y) == [l \in DOMAIN x |-> OrBits(x[l], y[l])]

----------------------------------------------------------------------------
(* Stores.  A machine state st is [mem, log, fault]: the memory, the      *)
(* stores performed so far (address and width of each, in order) and      *)
(* whether a store has left the memory.                                   *)

\* a byte as a word of one lane
ByteWord(b) == <<b>>

Machine(m) == [mem |-> m, log |-> <<>>, fault |-> FALSE]

\* *p = x for a word x of w bytes (w = 1: a byte) at address a
Store(st, a, x, w) ==
    IF a < 1 \/ a + w - 1 > MemSize
    THEN [st EXCEPT !.fault = TRUE]
    ELSE [mem |-> [b \in DOMAIN st.mem |->
                      IF b >= a /\ b < a + w THEN x[b - a + 1] ELSE st.mem[b]],
          log |-> Append(st.log, [addr |-> a, width |-> w]),
          fault |-> FALSE]

\* sz-- on a size_t: the value after the decrement
Dec(n) == IF n = 0 THEN SIZE_MAX ELSE n - 1

RECURSIVE ByteLoop(_, _, _, _)
\* while (sz--) *p++ = x;  with p a byte pointer
ByteLoop(st, p, n, x) ==
    IF st.fault \/ n = 0
    THEN [st |-> st, p |-> p, sz |-> Dec(n)]
    ELSE ByteLoop(Store(st, p, ByteWord(x), 1), p + 1, Dec(n), x)

RECURSIVE WordLoop(_, _, _, _, _)
\* while (sz--) *p++ = x;  with p a pointer to words of w bytes
WordLoop(st, p, n, x, w) ==
    IF st.fault \/ n = 0
    THEN [st |-> st, p |-> p, sz |-> Dec(n)]
    ELSE WordLoop(Store(st, p, x, w), p + w, Dec(n), x, w)

RECURSIVE Prologue(_, _, _, _, _)
\* while (((unsigned int)pp & (w-1)) && sz--) *pp++ = xx;
\* sz-- is evaluated, and wraps at 0, whenever pp is not aligned
Prologue(st, pp, n, xx, w) ==
    IF st.fault \/ pp % w = 0
    THEN [st |-> st, p |-> pp, sz |-> n]
    ELSE IF n = 0
    THEN [st |-> st, p |-> pp, sz |-> Dec(n)]
    ELSE Prologue(Store(st, pp, ByteWord(xx), 1), pp + 1, Dec(n), xx, w)

\* faulty variant: tail taken from sz after the shift
TailAfterShift(n, w) == (n \div w) % w
\* tail = sz & (w-1), taken before sz is shifted
TailOf(n, w) == n % w

\* faulty variant: no check of sz
AssertSkipped(n, w) == TRUE
\* assert(!(sz & (w-1)))
AssertHolds(n, w) == n % w = 0

\* faulty variant: x |= x << 16 left out
Pattern32Short(x) == WordOr(x, Shl(x, 8))
\* x |= x << 8; x |= x << 16;
Pattern32(x) == WordOr(WordOr(x, Shl(x, 8)), Shl(WordOr(x, Shl(x, 8)), 16))

\* faulty variant: (1<<i) <= __WORDSIZE
LoopCondLe(i, ws) == 2^i <= ws
\* (1<<i) < __WORDSIZE
LoopCond(i, ws) == 2^i < ws

RECURSIVE PatternLoop(_, _, _, _)
\* for (i = 3; (1<<i) < __WORDSIZE; ++i) x |= x << (1<<i);
\* hist[j+1] is x after j iterations
PatternLoop(x, i, ws, hist) ==
    IF LoopCond(i, ws)
    THEN PatternLoop(WordOr(x, Shl(x, 2^i)), i + 1, ws,
                     Append(hist, WordOr(x, Shl(x, 2^i))))
    ELSE [x |-> x, i |-> i, hist |-> hist]

\* the outcome of a call: how it ended ("returned", "assert": the assertion
\* failed, "fault": a store left the memory), the value returned, the
\* memory and the stores, and the locals the call computed
Outcome(status, st, ret, x, i, bpw, hist, npro, body, tail) ==
    [status |-> IF st.fault THEN "fault" ELSE status,
     ret |-> IF st.fault \/ status # "returned" THEN -1 ELSE ret,
     mem |-> st.mem, log |-> st.log,
     x |-> x, i |-> i, bytes_per_word |-> bpw, hist |-> hist,
     npro |-> npro, body |-> body, tail |-> tail]

NotCalled ==
    [status |-> "none", ret |-> -1, mem |-> <<>>, log |-> <<>>,
     x |-> <<>>, i |-> 0, bytes_per_word |-> 0, hist |-> <<>>,
     npro |-> 0, body |-> 0, tail |-> 0]

----------------------------------------------------------------------------
(* The five implementations: the outcome of f(s, c, sz) on memory m.       *)
(* ws is __WORDSIZE; a uintptr_t is ws / 8 bytes wide.                     *)

bytewise_memset(m, s0, c0, sz0) ==
    LET x == ToByte(MaskByte(c0))
        loop == ByteLoop(Machine(m), s0, sz0, x)
    IN  Outcome("returned", loop.st, s0, ByteWord(x), 0, 1, <<>>, 0, 0, 0)

wordwise_32_memset(m, s0, c0, sz0) ==
    LET x == Pattern32(WordOfInt(MaskByte(c0), 4))
        loop == WordLoop(Machine(m), s0, sz0 \div 4, x, 4)
    IN  IF ~AssertHolds(sz0, 4)
        THEN Outcome("assert", Machine(m), s0, x, 0, 4, <<>>, 0, 0, 0)
        ELSE Outcome("returned", loop.st, s0, x, 0, 4, <<>>, 0, sz0 \div 4, 0)

wordwise_memset(m, s0, c0, sz0, ws) ==
    LET x0 == WordOfInt(MaskByte(c0), ws \div 8)
        pat == PatternLoop(x0, 3, ws, <<x0>>)
        bytes_per_word == 2^(pat.i - 3)
        n == sz0 \div (2^(pat.i - 3))
        loop == WordLoop(Machine(m), s0, n, pat.x, ws \div 8)
    IN  IF ~AssertHolds(sz0, bytes_per_word)
        THEN Outcome("assert", Machine(m), s0, pat.x, pat.i, bytes_per_word,
                     pat.hist, 0, 0, 0)
        ELSE Outcome("returned", loop.st, s0, pat.x, pat.i, bytes_per_word,
                     pat.hist, 0, n, 0)

wordwise_32_unaligned_memset(m, s0, c0, sz0) ==
    LET x0 == WordOfInt(MaskByte(c0), 4)
        xx == ToByte(MaskByte(c0))
        pro == Prologue(Machine(m), s0, sz0, xx, 4)
        tail == TailOf(pro.sz, 4)
        x == Pattern32(x0)
        n == pro.sz \div 4
        body == WordLoop(pro.st, pro.p, n, x, 4)
        epi == ByteLoop(body.st, body.p, tail, xx)
    IN  Outcome("returned", epi.st, s0, x, 0, 4, <<>>,
                Len(pro.st.log), n, tail)

wordwise_unaligned_memset(m, s0, c0, sz0, ws) ==
    LET x0 == WordOfInt(MaskByte(c0), ws \div 8)
        xx == ToByte(MaskByte(c0))
        pat == PatternLoop(x0, 3, ws, <<x0>>)
        bytes_per_word == 2^(pat.i - 3)
        pro == Prologue(Machine(m), s0, sz0, xx, bytes_per_word)
        tail == TailOf(pro.sz, bytes_per_word)
        n == pro.sz \div (2^(pat.i - 3))
        body == WordLoop(pro.st, pro.p, n, pat.x, ws \div 8)
        epi == ByteLoop(body.st, body.p, tail, xx)
    IN  Outcome("returned", epi.st, s0, pat.x, pat.i, bytes_per_word,
                pat.hist, Len(pro.st.log), n, tail)

----------------------------------------------------------------------------
(* The fillers called one after the other on the same request and the     *)
(* same memory, first with c and then with c & 0xff.                      *)

Fillers == <<"bytewise_memset", "wordwise_32_memset", "wordwise_memset",
             "wordwise_32_unaligned_memset", "wordwise_unaligned_memset">>

FillerNames == {Fillers[j] : j \in DOMAIN Fillers}

CheckIdle ==
    /\ charSigned = TRUE
    /\ f = "none"
    /\ unaligned = 0
    /\ buffer = <<>>
    /\ set = 0
    /\ ck_pc = "idle"
    /\ ck_ret = 0
    /\ calls = <<>>

Init ==
    /\ WORDSIZE \in WordSizes
    /\ s \in GuardLen..(GuardLen + MaxOff)
    /\ c \in CValues
    /\ sz \in 0..MaxLen
    /\ arg = c
    /\ pass = 1
    /\ k = 1
    /\ out = [g \in FillerNames |-> NotCalled]
    /\ first = [g \in FillerNames |-> NotCalled]
    /\ CheckIdle

\* the call of filler g returns: its outcome is recorded
Called(g, outcome) ==
    /\ k \in DOMAIN Fillers
    /\ Fillers[k] = g
    /\ out' = [out EXCEPT ![g] = outcome]
    /\ k' = k + 1
    /\ UNCHANGED <<WORDSIZE, s, c, sz, arg, pass, first>>
    /\ UNCHANGED checkVars

Call_bytewise_memset ==
    Called("bytewise_memset", bytewise_memset(Mem0, s, arg, sz))

Call_wordwise_32_memset ==
    Called("wordwise_32_memset", wordwise_32_memset(Mem0, s, arg, sz))

Call_wordwise_memset ==
    Called("wordwise_memset", wordwise_memset(Mem0, s, arg, sz, WORDSIZE))

Call_wordwise_32_unaligned_memset ==
    Called("wordwise_32_unaligned_memset",
           wordwise_32_unaligned_memset(Mem0, s, arg, sz))

Call_wordwise_unaligned_memset ==
    Called("wordwise_unaligned_memset",
           wordwise_unaligned_memset(Mem0, s, arg, sz, WORDSIZE))

\* the second pass: the same request with the caller masking c
MaskedPass ==
    /\ pass = 1
    /\ k = Len(Fillers) + 1
    /\ first' = out
    /\ out' = [g \in FillerNames |-> NotCalled]
    /\ arg' = c % 256
    /\ pass' = 2
    /\ k' = 1
    /\ UNCHANGED <<WORDSIZE, s, c, sz>>
    /\ UNCHANGED checkVars

Next ==
    \/ Call_bytewise_memset
    \/ Call_wordwise_32_memset
    \/ Call_wordwise_memset
    \/ Call_wordwise_32_unaligned_memset
    \/ Call_wordwise_unaligned_memset
    \/ MaskedPass

Spec == Init /\ [][Next]_vars

----------------------------------------------------------------------------
(* The claims about the fillers. *)

AlignedFillers == {"wordwise_32_memset", "wordwise_memset"}
UnalignedFillers == {"wordwise_32_unaligned_memset", "wordwise_unaligned_memset"}
GenericFillers == {"wordwise_memset", "wordwise_unaligned_memset"}

\* bytes per word of filler g
W(g) ==
    IF g = "bytewise_memset" THEN 1
    ELSE IF g \in GenericFillers THEN WORDSIZE \div 8
    ELSE 4

Ended(g) == out[g].status # "none"
ValidFor(g) == g \in AlignedFillers => sz % W(g) = 0
InRegion(a) == a >= s /\ a < s + sz

\* C1: when a call of wordwise_32_unaligned_memset or
\* wordwise_unaligned_memset has ended (in particular when it returns),
\* every byte of [s, s+sz) equals c & 0xff, for every alignment of s, every
\* sz and every c.
C1_RegionFilled ==
    \A g \in UnalignedFillers :
        Ended(g) => \A a \in s..(s + sz - 1) : out[g].mem[a] = arg % 256

\* a call that returned after a prologue, a body and an epilogue
C1_Witness ==
    /\ out["wordwise_unaligned_memset"].status = "returned"
    /\ s % W("wordwise_unaligned_memset") # 0
    /\ out["wordwise_unaligned_memset"].npro > 0
    /\ out["wordwise_unaligned_memset"].body > 0
    /\ out["wordwise_unaligned_memset"].tail > 0

\* C2: for every filler and every input valid for it, no byte outside
\* [s, s+sz) is modified by the call.
C2_BoundaryIsolation ==
    \A g \in FillerNames :
        (Ended(g) /\ ValidFor(g)) =>
            \A a \in DOMAIN Mem0 : ~InRegion(a) => out[g].mem[a] = Mem0[a]

\* C3: for every filler, every s and every c, f(s, c, 0) performs no store
\* and returns s.
C3_ZeroLengthNoOp ==
    \A g \in FillerNames :
        (Ended(g) /\ sz = 0) =>
            /\ out[g].log = <<>>
            /\ out[g].status = "returned"
            /\ out[g].ret = s

\* C4: for wordwise_32_memset and wordwise_memset and every sz that is a
\* multiple of W, the call performs exactly sz / W word stores at stride W
\* from s, returns s, and leaves the memory bytewise_memset leaves on the
\* same request.
C4_WordwiseEqualsBytewise ==
    \A g \in AlignedFillers :
        (Ended(g) /\ sz % W(g) = 0) =>
            /\ out[g].status = "returned"
            /\ out[g].ret = s
            /\ Len(out[g].log) = sz \div W(g)
            /\ \A j \in 1..Len(out[g].log) :
                   out[g].log[j] = [addr |-> s + (j - 1) * W(g), width |-> W(g)]
            /\ out["bytewise_memset"].status = "returned"
            /\ out["bytewise_memset"].ret = s
            /\ out[g].mem = out["bytewise_memset"].mem

\* wordwise_memset has stored two 8-byte words
C4_Witness ==
    /\ WORDSIZE = 64
    /\ sz = 16
    /\ out["wordwise_memset"].status = "returned"
    /\ Len(out["wordwise_memset"].log) = 2
    /\ out["wordwise_32_memset"].status = "returned"

\* C5: for every filler and every request, the outcome of f(s, c, sz) (the
\* memory, the value returned, the stores, the pattern word) is that of
\* f(s, c & 0xff, sz); every lane of the pattern word and every byte stored
\* is c & 0xff.
C5_MaskingLaw ==
    \A g \in FillerNames :
        Ended(g) =>
            /\ \A l \in DOMAIN out[g].x : out[g].x[l] = c % 256
            /\ \A a \in DOMAIN Mem0 : out[g].mem[a] \in {Mem0[a], c % 256}
            /\ pass = 2 => out[g] = first[g]

\* every filler was called with a c outside 0..255 and again with c & 0xff
C5_Witness ==
    /\ pass = 2
    /\ c \notin 0..255
    /\ arg = c % 256
    /\ sz > 0
    /\ \A g \in FillerNames : Ended(g) /\ first[g].status # "none"

\* C6: when wordwise_32_memset or wordwise_memset is called with sz not a
\* multiple of W, the call ends at the assertion with no store performed
\* and the memory as it was.
C6_AssertBeforeWrite ==
    \A g \in AlignedFillers :
        (Ended(g) /\ sz % W(g) # 0) =>
            /\ out[g].status = "assert"
            /\ out[g].log = <<>>
            /\ out[g].mem = Mem0

\* both aligned fillers have failed their assertion on a sz of at least a word
C6_Witness ==
    /\ sz > 8
    /\ out["wordwise_32_memset"].status = "assert"
    /\ out["wordwise_memset"].status = "assert"

\* C8: in the two unaligned fillers, when s is not W-aligned and sz is
\* smaller than the distance from s to the next W-aligned address, the
\* prologue stores the sz bytes and then the body performs no word store
\* and the epilogue no byte store: the body's count and tail are 0.
C8_ShortRequestEndsInPrologue ==
    \A g \in UnalignedFillers :
        (Ended(g) /\ s % W(g) # 0 /\ sz < W(g) - (s % W(g))) =>
            /\ out[g].npro = sz
            /\ out[g].body = 0
            /\ out[g].tail = 0
            /\ Len(out[g].log) = sz

\* C9: in the two unaligned fillers, for every sz and every alignment of s,
\* prologue bytes + W * word stores of the body + tail = sz, with the
\* prologue and the tail in [0, W).
C9_PartitionInvariant ==
    \A g \in UnalignedFillers :
        Ended(g) =>
            /\ out[g].npro + W(g) * out[g].body + out[g].tail = sz
            /\ out[g].npro \in 0..(W(g) - 1)
            /\ out[g].tail \in 0..(W(g) - 1)

\* C10: for words of 8, 16, 32 and 64 bits and every c, the doubling loop of
\* wordwise_memset and wordwise_unaligned_memset ends with 2^i the word size
\* in bits, bytes_per_word the word size in bytes and every lane of x equal
\* to c & 0xff; after j iterations the low 2^j lanes of x are c & 0xff.
C10_PatternWord ==
    \A g \in GenericFillers :
        Ended(g) =>
            /\ 2^(out[g].i) = WORDSIZE
            /\ out[g].bytes_per_word = WORDSIZE \div 8
            /\ Len(out[g].x) = WORDSIZE \div 8
            /\ \A l \in DOMAIN out[g].x : out[g].x[l] = arg % 256
            /\ Len(out[g].hist) = out[g].i - 2
            /\ \A j \in 0..(Len(out[g].hist) - 1) :
                   \A l \in 1..(2^j) : out[g].hist[j + 1][l] = arg % 256

\* the loop has run three times for a 64-bit word and a non-zero byte
C10_Witness ==
    /\ WORDSIZE = 64
    /\ arg % 256 # 0
    /\ out["wordwise_unaligned_memset"].status # "none"
    /\ out["wordwise_unaligned_memset"].i = 6
    /\ Len(out["wordwise_unaligned_memset"].hist) = 4

----------------------------------------------------------------------------
(* check_memset(f, unaligned).  The buffer's element i is buffer[i + 1].  *)
(* The buffer is not initialised: it starts with any of InitialBytes in   *)
(* every byte.  f is memset, or a fill function with a fault that         *)
(* check_memset is there to find.                                         *)

FillFns == {"memset", "short_by_one", "high_bit_lost"}
InitialBytes == {0, 170}

\* the buffer after f(buffer + start, v, len)
\*   memset:        every byte of the region is (unsigned char)v
\*   short_by_one:  the last byte of the region is not written
\*   high_bit_lost: the bytes are written without their bit 7
FillBuffer(fn, buf, start, v, len) ==
    [a \in 1..Len(buf) |->
        IF a - 1 >= start /\ a - 1 < start + len
           /\ ~(fn = "short_by_one" /\ a - 1 = start + len - 1)
        THEN IF fn = "high_bit_lost" THEN v % 128 ELSE v % 256
        ELSE buf[a]]

\* for (i = lo; i < hi; ++i) if (buffer[i] != set) return i + 1;
\* the value returned, 0 when the loop ends without returning
ScanBuffer(buf, lo, hi, v) ==
    LET bad == {i \in lo..(hi - 1) : buf[i + 1] # ToByte(v)}
    IN  IF bad = {} THEN 0
        ELSE (CHOOSE i \in bad : \A j \in bad : i <= j) + 1

\* the scan's upper limit: i < BUFFER_LEN - 2*unaligned
ScanUpper(u) == BUFFER_LEN - 2 * u

\* (unsigned int)set <= 0xff: a negative char converts to a value above 0xff
LoopTest(v) == v >= 0 /\ v <= 255

\* ++set on a char: a signed char wraps from 127 to -128, an unsigned char
\* from 255 to 0
IncChar(v) ==
    IF charSigned
    THEN IF v = 127 THEN -128 ELSE v + 1
    ELSE (v + 1) % 256

FillIdle ==
    /\ WORDSIZE = 32
    /\ s = GuardLen
    /\ c = 0
    /\ sz = 0
    /\ arg = 0
    /\ pass = 2
    /\ k = Len(Fillers) + 1
    /\ out = [g \in FillerNames |-> NotCalled]
    /\ first = [g \in FillerNames |-> NotCalled]

InitCheck ==
    /\ FillIdle
    /\ charSigned \in BOOLEAN
    /\ buffer \in {[a \in 1..BUFFER_LEN |-> b] : b \in InitialBytes}
    /\ f = "none"
    /\ unaligned = 0
    /\ set = 0
    /\ ck_pc = "idle"
    /\ ck_ret = 0
    /\ calls = <<>>

\* check_memset is entered: set = 0
check_memset_enter ==
    /\ ck_pc = "idle"
    /\ \E fn \in FillFns, u \in {0, 1} :
           /\ f' = fn
           /\ unaligned' = u
    /\ set' = 0
    /\ ck_pc' = "loop"
    /\ UNCHANGED <<charSigned, buffer, ck_ret, calls>>
    /\ UNCHANGED fillVars

\* one iteration of the loop over set: the call of f, the scan, ++set
check_memset_iteration ==
    /\ ck_pc = "loop"
    /\ LoopTest(set)
    /\ Len(calls) < MaxCalls
    /\ buffer' = FillBuffer(f, buffer, unaligned, set, BUFFER_LEN - 2 * unaligned)
    /\ calls' = Append(calls, set)
    /\ ck_ret' = ScanBuffer(buffer', unaligned, ScanUpper(unaligned), set)
    /\ IF ck_ret' # 0
       THEN ck_pc' = "returned" /\ set' = set
       ELSE ck_pc' = "loop" /\ set' = IncChar(set)
    /\ UNCHANGED <<charSigned, f, unaligned>>
    /\ UNCHANGED fillVars

\* the loop over set ends: return 0
check_memset_return ==
    /\ ck_pc = "loop"
    /\ ~LoopTest(set)
    /\ ck_ret' = 0
    /\ ck_pc' = "returned"
    /\ UNCHANGED <<charSigned, f, unaligned, buffer, set, calls>>
    /\ UNCHANGED fillVars

NextCheck ==
    \/ check_memset_enter
    \/ check_memset_iteration
    \/ check_memset_return

SpecCheck == InitCheck /\ [][NextCheck]_vars

\* the filled region of the buffer holds the value of the last call
RegionMatches ==
    \A i \in unaligned..(BUFFER_LEN - unaligned - 1) :
        buffer[i + 1] = calls[Len(calls)] % 256

\* C7, the scan: after a call of f that check_memset goes on from, every
\* byte of the filled region [unaligned, BUFFER_LEN - unaligned) equals the
\* value used.
C7_ScansFilledRegion ==
    (ck_pc = "loop" /\ calls # <<>>) => RegionMatches

\* C7, the values: check_memset returns 0 only after calling f once for
\* each value 0..255.
C7_CallsEveryValue ==
    (ck_pc = "returned" /\ ck_ret = 0) =>
        \A v \in 0..255 :
            Cardinality({j \in DOMAIN calls : calls[j] % 256 = v}) = 1

\* C7: check_memset(f, unaligned) calls f once for each value 0..255 on
\* buffer + unaligned with length BUFFER_LEN - 2*unaligned, compares every
\* byte of the filled region with the value after each call, returns 0 only
\* if all 256 values matched on every byte of the region, and otherwise
\* returns the first mismatching index (plus one).
C7_VerifierCoverage ==
    /\ C7_ScansFilledRegion
    /\ C7_CallsEveryValue
    /\ (ck_pc = "returned" /\ ck_ret # 0) =>
           /\ buffer[ck_ret] # calls[Len(calls)] % 256
           /\ \A i \in unaligned..(ck_ret - 2) :
                  buffer[i + 1] = calls[Len(calls)] % 256

====
